---------------------------- MODULE Spec2Model ----------------------------
(***************************************************************************)
(* playdoom: the configuration store (config.py: EXAMPLE_CONFIG, init,     *)
(* load) and the command-line entry point (__main__.py: main), over a      *)
(* filesystem that holds the configuration directory and config.toml.      *)
(*                                                                         *)
(* A file is a sequence of cells.  A cell is half of a text line, so that  *)
(* a short write can end in the middle of a line.  A cell that lies in a   *)
(* hole left by a write beyond the end of the file is NUL.                 *)
(***************************************************************************)
EXTENDS Integers, Sequences, FiniteSets

\* ------------------------------------------------------------ bounds
\* invocations one process makes, one after the other
MaxRuns == 2
\* cells one write(2) call transfers at least, unless fewer are left
WriteUnit == 5
\* invocations each of two concurrent processes makes
ConcRuns == 1
\* I/O errors the environment may inject (beyond "no such file")
MaxFaults == 2

\* ------------------------------------------------------- TOML lines
NoVal == [ty |-> "none", s |-> << >>]
Str(x) == [ty |-> "str", s |-> <<x>>]
Arr(xs) == [ty |-> "arr", s |-> xs]
Bool(b) == [ty |-> "bool", s |-> <<b>>]

Blank == [t |-> "blank", k |-> << >>, v |-> NoVal]
Comment == [t |-> "comment", k |-> << >>, v |-> NoVal]
Table(path) == [t |-> "table", k |-> path, v |-> NoVal]
KV(key, val) == [t |-> "kv", k |-> <<key>>, v |-> val]
Hole == [t |-> "nul", k |-> << >>, v |-> NoVal]

\* The text between the triple quotes, line by line: it starts with a line
\* break, so its first line is blank.
EXAMPLE_CONFIG_RAW ==
  << Blank,
     Comment,
     Comment,
     Table(<<"engines", "example">>),
     Comment,
     KV("names", Arr(<<"example", "ex">>)),
     Comment,
     KV("run", Str("/path/to/engine.exe")),
     Comment,
     Comment,
     Comment,
     Comment,
     Comment,
     Comment,
     KV("kind", Str("Vanilla")),
     Comment,
     KV("extra_args", Arr(<< >>)),
     Comment,
     KV("use_merge_arg", Bool("false")) >>

\* str.lstrip(): the leading white space (here, leading blank lines) goes.
RECURSIVE Lstrip(_)
Lstrip(ls) ==
  IF ls # << >> /\ Head(ls).t = "blank" THEN Lstrip(Tail(ls)) ELSE ls

EXAMPLE_CONFIG == Lstrip(EXAMPLE_CONFIG_RAW)

\* ------------------------------------------------------------ cells
Cell(line, h) == [line |-> line, half |-> h]
NUL == Cell(Hole, 0)

\* The bytes of a text: each line is two cells.
RECURSIVE Encode(_)
Encode(ls) ==
  IF ls = << >> THEN << >>
  ELSE <<Cell(Head(ls), 1), Cell(Head(ls), 2)>> \o Encode(Tail(ls))

TemplateBytes == Encode(EXAMPLE_CONFIG)
TemplateLen == Len(TemplateBytes)

\* ------------------------------------------------------ tomllib.load
EmptyDoc == [tables |-> {}, items |-> {}]
ParseOk(d) == [ok |-> TRUE, doc |-> d]
ParseError == [ok |-> FALSE, doc |-> EmptyDoc]

\* The lines of a file, or the failure to split it into lines: a line is
\* the two halves of one line; a comment cut short is still a comment;
\* anything else (a NUL, a statement cut short) is no TOML.
RECURSIVE Lines(_)
Lines(bs) ==
  IF bs = << >> THEN [ok |-> TRUE, ls |-> << >>]
  ELSE IF Len(bs) = 1
    THEN IF bs[1].half = 1 /\ bs[1].line.t \in {"comment", "blank"}
           THEN [ok |-> TRUE, ls |-> <<bs[1].line>>]
           ELSE [ok |-> FALSE, ls |-> << >>]
  ELSE IF bs[1].half = 1 /\ bs[2].half = 2 /\ bs[1].line = bs[2].line
          /\ bs[1].line.t # "nul"
    THEN LET rest == Lines(SubSeq(bs, 3, Len(bs)))
         IN  [ok |-> rest.ok, ls |-> <<bs[1].line>> \o rest.ls]
  ELSE [ok |-> FALSE, ls |-> << >>]

\* The statements of a document, in order: a table header opens a table
\* (twice the same header is an error), a key goes to the open table (twice
\* the same key in one table is an error).
RECURSIVE ParseLines(_, _, _)
ParseLines(ls, cur, doc) ==
  IF ls = << >> THEN ParseOk(doc)
  ELSE LET l == Head(ls) IN
    CASE l.t \in {"blank", "comment"} -> ParseLines(Tail(ls), cur, doc)
      [] l.t = "table" ->
           IF l.k \in doc.tables THEN ParseError
           ELSE ParseLines(Tail(ls), l.k,
                           [doc EXCEPT !.tables = @ \cup {l.k}])
      [] l.t = "kv" ->
           IF \E i \in doc.items : i.tbl = cur /\ i.k = l.k THEN ParseError
           ELSE ParseLines(Tail(ls), cur,
                           [doc EXCEPT !.items =
                              @ \cup {[tbl |-> cur, k |-> l.k, v |-> l.v]}])
      [] OTHER -> ParseError

Parse(bs) ==
  LET split == Lines(bs)
  IN  IF split.ok THEN ParseLines(split.ls, << >>, EmptyDoc) ELSE ParseError


\* ------------------------------------------------------- filesystem
Absent == [exists |-> FALSE, data |-> << >>]
FileOf(bs) == [exists |-> TRUE, data |-> bs]

Ok(d, f) == [err |-> "none", dir |-> d, file |-> f]
Err(e, d, f) == [err |-> e, dir |-> d, file |-> f]

\* faulty variant: init() without the mkdir call
MkdirSkipped(d, f) == Ok(d, f)

\* faulty variant: mkdir(parents=True) without exist_ok
MkdirNoExistOk(d, f) ==
  IF d THEN Err("FileExistsError", d, f) ELSE Ok(TRUE, f)

\* Path.mkdir(parents=True, exist_ok=True): the directory exists afterwards,
\* and one that is already there is no error.
Mkdir(d, f) == Ok(TRUE, f)

\* faulty variant: open(path, "r+") or os.open without O_TRUNC: the old bytes stay
OpenWNoTrunc(d, f) ==
  IF d THEN Ok(d, FileOf(f.data)) ELSE Err("FileNotFoundError", d, f)

\* open(path, "w"): creates the file or truncates it to nothing.
OpenW(d, f) ==
  IF d THEN Ok(d, FileOf(<< >>)) ELSE Err("FileNotFoundError", d, f)

\* faulty variant: open(path, "a+b"): a missing file is created
OpenRbCreating(d, f) ==
  IF d THEN Ok(d, FileOf(f.data)) ELSE Err("FileNotFoundError", d, f)

\* faulty variant: load() opens another path than the one init() writes
OpenRbWrongPath(d, f) == Err("FileNotFoundError", d, f)

\* open(path, "rb"): fails when there is no such file; changes nothing.
OpenRb(d, f) ==
  IF d /\ f.exists THEN Ok(d, f) ELSE Err("FileNotFoundError", d, f)

Max(a, b) == IF a >= b THEN a ELSE b

\* faulty variant: open(path, "a"): every write lands at the end of the file
PWriteAppend(data, off, chunk) == data \o chunk

\* write(2) of chunk at offset off: bytes beyond the old end that the
\* chunk does not cover are a hole of NULs.
PWrite(data, off, chunk) ==
  [i \in 1..Max(Len(data), off + Len(chunk)) |->
     IF i > off /\ i <= off + Len(chunk) THEN chunk[i - off]
     ELSE IF i <= Len(data) THEN data[i]
     ELSE NUL]

\* faulty variant: `except Exception`
CatchAll(e) == TRUE

\* `except IOError`: IOError is OSError, whose subclasses include
\* FileNotFoundError; tomllib.TOMLDecodeError is a ValueError.
IsIOError(e) == e \in {"OSError", "FileNotFoundError", "FileExistsError"}

\* ------------------------------------------------------------ state
Procs == {1, 2}
Ops == {"main", "init", "load"}

VARIABLES
  dir,      \* the configuration directory exists
  file,     \* config.toml: [exists, data]
  pc,       \* per process: where its invocation stands
  cur,      \* per process: the record of its current invocation
  prev,     \* per process: the record of its previous invocation
  runs,     \* per process: invocations started
  quota,    \* invocations each process makes
  ops,      \* the operations that are invoked
  budget    \* I/O errors the environment may still inject

vars == <<dir, file, pc, cur, prev, runs, quota, ops, budget>>

NoRun ==
  [op |-> "none", startDir |-> FALSE, startFile |-> Absent,
   loadCalls |-> 0, initCalls |-> 0, ropens |-> 0, wopens |-> 0,
   loadExc |-> "none", printExc |-> "none", initExc |-> "none",
   rd |-> << >>, overlap |-> FALSE, faults |-> 0,
   ret |-> EmptyDoc, out |-> << >>, woff |-> 0,
   exit |-> "none", exc |-> "none", endDir |-> FALSE, endFile |-> Absent]

\* A user's document: the template with an engine of the user's added.
USER_CONFIG ==
  EXAMPLE_CONFIG \o
  << Table(<<"engines", "ex">>),
     KV("names", Arr(<<"ex">>)),
     KV("run", Str("/bin/x")),
     KV("kind", Str("Vanilla")),
     KV("extra_args", Arr(<< >>)),
     KV("use_merge_arg", Bool("false")) >>

\* Malformed documents: an unterminated table header, a key given twice.
UNTERMINATED == <<Cell(Table(<<"engines", "bad">>), 1)>>
DUPLICATE == Encode(<<KV("run", Str("a")), KV("run", Str("b"))>>)

StartFiles ==
  {Absent, FileOf(<< >>), FileOf(TemplateBytes), FileOf(Encode(USER_CONFIG)),
   FileOf(UNTERMINATED), FileOf(DUPLICATE)}

TypeOK ==
  /\ dir \in BOOLEAN
  /\ file.exists \in BOOLEAN
  /\ file.exists => dir
  /\ \A p \in Procs : runs[p] \in 0..quota
  /\ budget \in 0..MaxFaults

Init ==
  /\ dir \in BOOLEAN
  /\ file \in StartFiles
  /\ file.exists => dir
  /\ pc = [p \in Procs |-> "idle"]
  /\ cur = [p \in Procs |-> NoRun]
  /\ prev = [p \in Procs |-> NoRun]
  /\ runs = [p \in Procs |-> 0]
  /\ quota = MaxRuns
  /\ ops = Ops
  /\ budget = MaxFaults

\* Whether the environment makes this system call fail.
Faults == IF budget > 0 THEN BOOLEAN ELSE {FALSE}

\* The sizes a write(2) call may transfer of a buffer of `left` cells.
Chunks(left) ==
  {n \in 1..left : n = left \/ n % WriteUnit = 0}

\* ------------------------------------------------------- invocation
\* The invocation of p ends: normally, or with e uncaught.
Finish(p, c, e, d, f) ==
  /\ pc' = [pc EXCEPT ![p] = "done"]
  /\ cur' = [cur EXCEPT ![p] =
       [c EXCEPT !.exit = IF e = "none" THEN "ok" ELSE "crash",
                 !.exc = e, !.woff = 0, !.endDir = d, !.endFile = f]]

\* init() is entered.
EnterInit(p, c) ==
  /\ pc' = [pc EXCEPT ![p] = "init_mkdir"]
  /\ cur' = [cur EXCEPT ![p] = [c EXCEPT !.initCalls = @ + 1]]

\* faulty variant: `except IOError: pass`
RaiseSwallowed(p, c, e, d, f) ==
  IF c.op = "main" /\ IsIOError(e)
    THEN Finish(p, c, "none", d, f)
    ELSE Finish(p, c, e, d, f)

\* main's try block (load, then print) raises e: `except IOError` calls
\* init(); any other exception, and any exception of a direct call of
\* load(), leaves the invocation.
Raise(p, c, e, d, f) ==
  IF c.op = "main" /\ IsIOError(e)
    THEN EnterInit(p, c)
    ELSE Finish(p, c, e, d, f)

\* A process starts main(), or a caller calls config.init() or config.load().
Start(p, op) ==
  /\ pc[p] \in {"idle", "done"}
  /\ runs[p] < quota
  /\ op \in ops
  /\ runs' = [runs EXCEPT ![p] = @ + 1]
  /\ prev' = [prev EXCEPT ![p] = cur[p]]
  /\ LET c == [NoRun EXCEPT !.op = op, !.startDir = dir, !.startFile = file]
     IN  IF op = "init"
           THEN EnterInit(p, c)
           ELSE /\ pc' = [pc EXCEPT ![p] = "load_open"]
                /\ cur' = [cur EXCEPT ![p] = [c EXCEPT !.loadCalls = 1]]
  /\ UNCHANGED <<dir, file, quota, ops, budget>>

\* load(): open(DIRS.user_config_path / "config.toml", "rb")
LoadOpen(p) ==
  /\ pc[p] = "load_open"
  /\ \E fault \in Faults :
       LET r == IF fault THEN Err("OSError", dir, file) ELSE OpenRb(dir, file)
           c == [cur[p] EXCEPT !.ropens = @ + 1,
                               !.loadExc = r.err,
                               !.faults = @ + (IF fault THEN 1 ELSE 0)]
       IN  /\ budget' = budget - (IF fault THEN 1 ELSE 0)
           /\ dir' = r.dir
           /\ file' = r.file
           /\ IF r.err = "none"
                THEN /\ pc' = [pc EXCEPT ![p] = "load_read"]
                     /\ cur' = [cur EXCEPT ![p] = c]
                ELSE Raise(p, c, r.err, r.dir, r.file)
  /\ UNCHANGED <<prev, runs, quota, ops>>

\* load(): tomllib.load(f) reads the whole file and parses it.
LoadRead(p) ==
  /\ pc[p] = "load_read"
  /\ \E fault \in Faults :
       LET doc == Parse(file.data)
           e == IF fault THEN "OSError"
                ELSE IF doc.ok THEN "none" ELSE "TOMLDecodeError"
           c == [cur[p] EXCEPT
                   !.rd = IF fault THEN << >> ELSE file.data,
                   !.overlap = \E q \in Procs \ {p} : pc[q] = "init_write",
                   !.loadExc = e,
                   !.ret = doc.doc,
                   !.faults = @ + (IF fault THEN 1 ELSE 0)]
       IN  /\ budget' = budget - (IF fault THEN 1 ELSE 0)
           /\ IF e # "none" THEN Raise(p, c, e, dir, file)
              ELSE IF c.op = "main"
                THEN /\ pc' = [pc EXCEPT ![p] = "print"]
                     /\ cur' = [cur EXCEPT ![p] = c]
                ELSE Finish(p, c, "none", dir, file)
  /\ UNCHANGED <<dir, file, prev, runs, quota, ops>>

\* main: print(config.load()), inside the try block.
PrintDoc(p) ==
  /\ pc[p] = "print"
  /\ \E fault \in Faults :
       LET c == [cur[p] EXCEPT
                   !.printExc = IF fault THEN "OSError" ELSE "none",
                   !.out = IF fault THEN @ ELSE Append(@, cur[p].ret),
                   !.faults = @ + (IF fault THEN 1 ELSE 0)]
       IN  /\ budget' = budget - (IF fault THEN 1 ELSE 0)
           /\ IF fault THEN Raise(p, c, "OSError", dir, file)
                       ELSE Finish(p, c, "none", dir, file)
  /\ UNCHANGED <<dir, file, prev, runs, quota, ops>>

\* init(): DIRS.user_config_path.mkdir(parents=True, exist_ok=True)
InitMkdir(p) ==
  /\ pc[p] = "init_mkdir"
  /\ \E fault \in Faults :
       LET r == IF fault THEN Err("OSError", dir, file) ELSE Mkdir(dir, file)
           c == [cur[p] EXCEPT !.initExc = r.err,
                               !.faults = @ + (IF fault THEN 1 ELSE 0)]
       IN  /\ budget' = budget - (IF fault THEN 1 ELSE 0)
           /\ dir' = r.dir
           /\ file' = r.file
           /\ IF r.err = "none"
                THEN /\ pc' = [pc EXCEPT ![p] = "init_open"]
                     /\ cur' = [cur EXCEPT ![p] = c]
                ELSE Finish(p, c, r.err, r.dir, r.file)
  /\ UNCHANGED <<prev, runs, quota, ops>>

\* init(): open(DIRS.user_config_path / "config.toml", "w")
InitOpen(p) ==
  /\ pc[p] = "init_open"
  /\ \E fault \in Faults :
       LET r == IF fault THEN Err("OSError", dir, file) ELSE OpenW(dir, file)
           c == [cur[p] EXCEPT !.wopens = @ + 1,
                               !.initExc = r.err,
                               !.faults = @ + (IF fault THEN 1 ELSE 0)]
       IN  /\ budget' = budget - (IF fault THEN 1 ELSE 0)
           /\ dir' = r.dir
           /\ file' = r.file
           /\ IF r.err = "none"
                THEN /\ pc' = [pc EXCEPT ![p] = "init_write"]
                     /\ cur' = [cur EXCEPT ![p] = c]
                ELSE Finish(p, c, r.err, r.dir, r.file)
  /\ UNCHANGED <<prev, runs, quota, ops>>

\* init(): f.write(EXAMPLE_CONFIG), flushed when the with block closes f.
\* The kernel may take the buffer in several write(2) calls, each at the
\* descriptor's own offset and each of whole units, or of all that is left.
InitWrite(p) ==
  /\ pc[p] = "init_write"
  /\ \E fault \in Faults :
     \E n \in Chunks(TemplateLen - cur[p].woff) :
       LET off == cur[p].woff
           last == off + n = TemplateLen
           f == IF fault THEN file
                ELSE FileOf(PWrite(file.data, off,
                                   SubSeq(TemplateBytes, off + 1, off + n)))
           c == [cur[p] EXCEPT
                   !.woff = IF fault THEN @ ELSE off + n,
                   !.initExc = IF fault THEN "OSError" ELSE "none",
                   !.faults = @ + (IF fault THEN 1 ELSE 0)]
       IN  /\ budget' = budget - (IF fault THEN 1 ELSE 0)
           /\ file' = f
           /\ IF fault THEN Finish(p, c, "OSError", dir, f)
              ELSE IF last THEN Finish(p, c, "none", dir, f)
              ELSE /\ pc' = [pc EXCEPT ![p] = "init_write"]
                   /\ cur' = [cur EXCEPT ![p] = c]
  /\ UNCHANGED <<dir, prev, runs, quota, ops>>

Step(p) ==
  \/ \E op \in Ops : Start(p, op)
  \/ LoadOpen(p)
  \/ LoadRead(p)
  \/ PrintDoc(p)
  \/ InitMkdir(p)
  \/ InitOpen(p)
  \/ InitWrite(p)

\* One process: invocations follow one another.
Next == Step(1)

Spec == Init /\ [][Next]_vars

\* Two processes that each invoke main(), no I/O errors injected,
\* config.toml absent at first: the invocations overlap.
InitConc ==
  /\ dir \in BOOLEAN
  /\ file = Absent
  /\ pc = [p \in Procs |-> "idle"]
  /\ cur = [p \in Procs |-> NoRun]
  /\ prev = [p \in Procs |-> NoRun]
  /\ runs = [p \in Procs |-> 0]
  /\ quota = ConcRuns
  /\ ops = {"main"}
  /\ budget = 0

NextConc == \E p \in Procs : Step(p)

SpecConc == InitConc /\ [][NextConc]_vars


\* ============================================================ claims
Template == FileOf(TemplateBytes)
TemplateDoc == Parse(TemplateBytes).doc
Done(p) == pc[p] = "done"
EnginesExample == <<"engines", "example">>

\* C1: whenever config.toml is absent when main() is invoked (the directory
\* missing, or there without the file) and the environment injects no I/O
\* error, the invocation ends without an error, with the directory
\* existing and config.toml holding exactly the template.
C1_Bootstrap ==
  \A p \in Procs :
    (Done(p) /\ cur[p].op = "main" /\ ~cur[p].startFile.exists
       /\ cur[p].faults = 0)
    => /\ cur[p].exit = "ok"
       /\ cur[p].exc = "none"
       /\ dir
       /\ file = Template
       /\ cur[p].endFile = Template

C1_Witness ==
  /\ Done(1) /\ cur[1].op = "main" /\ cur[1].faults = 0
  /\ ~cur[1].startDir /\ ~cur[1].startFile.exists
  /\ dir /\ file = Template /\ cur[1].exit = "ok"

\* C2: init() is an idempotent overwrite: whatever config.toml held (nothing,
\* the template, a user's document, malformed text), after a successful
\* init() it holds exactly the template, nothing of the old content, and
\* after a second successful init() it holds what it held after the first.
C2_InitIdempotent ==
  \A p \in Procs :
    (Done(p) /\ cur[p].op = "init" /\ cur[p].exit = "ok")
    => /\ file = Template
       /\ Len(file.data) = TemplateLen
       /\ (prev[p].op = "init" /\ prev[p].exit = "ok")
            => file = prev[p].endFile

C2_Witness ==
  /\ Done(1) /\ cur[1].op = "init" /\ cur[1].exit = "ok"
  /\ prev[1].op = "init" /\ prev[1].exit = "ok"
  /\ prev[1].startFile = FileOf(Encode(USER_CONFIG))
  /\ file = Template

\* C3: when config.toml exists, is readable and holds malformed text, main()
\* ends with a failure (the parse error, uncaught), init() is not called,
\* nothing is printed and the file is left as it was.
C3_MalformedCrashes ==
  \A p \in Procs :
    (Done(p) /\ cur[p].op = "main" /\ cur[p].startFile.exists
       /\ ~Parse(cur[p].startFile.data).ok /\ cur[p].faults = 0)
    => /\ cur[p].exit = "crash"
       /\ cur[p].exc = "TOMLDecodeError"
       /\ cur[p].initCalls = 0
       /\ cur[p].wopens = 0
       /\ cur[p].out = << >>
       /\ file = cur[p].startFile

C3_Witness ==
  /\ Done(1) /\ cur[1].op = "main" /\ cur[1].faults = 0
  /\ cur[1].startFile = FileOf(UNTERMINATED)
  /\ cur[1].exit = "crash" /\ file = FileOf(UNTERMINATED)

\* C4: two invocations of main(), one after the other, from a fresh
\* environment (no directory) with no I/O error injected: the first
\* prints nothing and leaves config.toml with exactly the template; the
\* second prints the parse of the template, in which engines.example is
\* present with kind = "Vanilla", does not call init() and leaves the file
\* as it was.
C4_TwoRuns ==
  \A p \in Procs :
    (Done(p) /\ cur[p].op = "main" /\ prev[p].op = "main"
       /\ ~prev[p].startDir /\ prev[p].faults = 0 /\ cur[p].faults = 0)
    => /\ prev[p].out = << >>
       /\ prev[p].exit = "ok"
       /\ prev[p].endFile = Template
       /\ cur[p].startFile = Template
       /\ cur[p].exit = "ok"
       /\ Len(cur[p].out) = 1
       /\ cur[p].out[1] = TemplateDoc
       /\ EnginesExample \in cur[p].out[1].tables
       /\ [tbl |-> EnginesExample, k |-> <<"kind">>, v |-> Str("Vanilla")]
            \in cur[p].out[1].items
       /\ cur[p].initCalls = 0
       /\ cur[p].wopens = 0
       /\ file = Template

C4_Witness ==
  /\ Done(1) /\ cur[1].op = "main" /\ prev[1].op = "main"
  /\ ~prev[1].startDir /\ prev[1].faults = 0 /\ cur[1].faults = 0
  /\ cur[1].out = <<TemplateDoc>> /\ prev[1].out = << >>

\* C5 (as claimed): every invocation of main() that starts with config.toml
\* present, under any I/O outcome of the load or of printing, ends with
\* the file holding what it held at the start.
C5_NeverMutatesExisting ==
  \A p \in Procs :
    (Done(p) /\ cur[p].op = "main" /\ cur[p].startFile.exists)
    => file = cur[p].startFile

\* C6: load() has no side effect on the filesystem: from every starting
\* state, whether it returns a document or raises, the directory's
\* existence and config.toml's existence and content are what they were
\* when it was called; load() creates neither.
LoadOver(p) ==
  \/ pc[p] \in {"load_read", "print"}
  \/ pc[p] = "init_mkdir" /\ cur[p].op = "main"
  \/ Done(p) /\ cur[p].initCalls = 0

C6_LoadNoSideEffect ==
  \A p \in Procs :
    (cur[p].op \in {"main", "load"} /\ LoadOver(p))
    => /\ dir = cur[p].startDir
       /\ file = cur[p].startFile

C6_Witness ==
  /\ Done(1) /\ cur[1].op = "load" /\ cur[1].exc = "FileNotFoundError"
  /\ cur[1].startDir /\ ~cur[1].startFile.exists
  /\ dir /\ ~file.exists

C8_WriteOnlyAfterLoadError ==
  \A p \in Procs :
    (cur[p].op = "main" /\ cur[p].initCalls > 0)
    => IsIOError(cur[p].loadExc)

\* C9: two concurrent invocations of main() that both start with config.toml
\* absent: once both have ended, in whatever order their steps were taken,
\* the file exists and holds exactly the template, and no init() failed (a
\* directory the other process made in between is no error).
AllDone == \A p \in Procs : Done(p)

C9_RaceEndsInTemplate ==
  (AllDone /\ \A p \in Procs : ~cur[p].startFile.exists)
  => /\ dir
     /\ file = Template
     /\ \A p \in Procs :
          cur[p].initCalls = 1 => cur[p].exit = "ok" /\ cur[p].initExc = "none"

C9_Witness ==
  /\ AllDone
  /\ \A p \in Procs :
       /\ ~cur[p].startDir /\ ~cur[p].startFile.exists
       /\ cur[p].initCalls = 1 /\ cur[p].exit = "ok"
  /\ file = Template

\* C10: init() truncates and writes config.toml in place, so a load() that
\* overlaps another invocation's init() can read the file while it is empty
\* or holds only part of the template, and then main() prints a document
\* that is not the parse of the template or ends with a parse failure.
\* Such content is never that of a complete file: whenever no init() is
\* between its open and the end of its write, the file is absent or the
\* template, and every read of anything else overlapped an init().
Torn(bs) ==
  /\ Len(bs) <= TemplateLen
  /\ bs # TemplateBytes
  /\ \A i \in 1..Len(bs) : bs[i] \in {NUL, TemplateBytes[i]}

HasRead(p) ==
  cur[p].ropens = 1 /\ pc[p] \in {"print", "done"}
  /\ cur[p].loadExc \in {"none", "TOMLDecodeError"}

C10_TornRead ==
  /\ (\A q \in Procs : pc[q] # "init_write")
       => (~file.exists \/ file = Template)
  /\ \A p \in Procs :
       (HasRead(p) /\ cur[p].rd # TemplateBytes)
       => /\ cur[p].overlap
          /\ Torn(cur[p].rd)
          /\ Done(p) =>
               /\ cur[p].initCalls = 0
               /\ IF Parse(cur[p].rd).ok
                    THEN /\ cur[p].exit = "ok"
                         /\ cur[p].out = <<Parse(cur[p].rd).doc>>
                         /\ cur[p].out[1] # TemplateDoc
                    ELSE /\ cur[p].exit = "crash"
                         /\ cur[p].exc = "TOMLDecodeError"
                         /\ cur[p].out = << >>

\* a reader that printed the parse of a torn file
C10_Witness ==
  \E p \in Procs :
    /\ Done(p) /\ cur[p].overlap /\ Torn(cur[p].rd)
    /\ cur[p].rd # << >>
    /\ cur[p].exit = "ok"
    /\ cur[p].out # <<TemplateDoc>>

\* a reader that ended with a parse failure on a torn file
C10_WitnessParseFailure ==
  \E p \in Procs :
    /\ Done(p) /\ cur[p].overlap /\ Torn(cur[p].rd)
    /\ cur[p].exit = "crash" /\ cur[p].exc = "TOMLDecodeError"

\* a reader that printed the empty document of a truncated file
C10_WitnessEmpty ==
  \E p \in Procs :
    /\ Done(p) /\ cur[p].overlap /\ cur[p].rd = << >>
    /\ cur[p].out = <<EmptyDoc>>

=============================================================================
